---- MODULE Spec2Model ----
(***************************************************************************)
(* Model of the registrar lookup tool (reg.py, reg_db.py).                 *)
(*                                                                         *)
(* Text is a sequence of code points (65 = 'A', 97 = 'a', 37 = '%', ...),  *)
(* so that lowercasing, escaping, substring tests and ordering are         *)
(* computed, not assumed.  Fixed pieces of text that the code never        *)
(* inspects (SQL fragments, error texts, labels of print statements) are   *)
(* TLA+ strings.                                                           *)
(***************************************************************************)
EXTENDS Integers, Sequences, FiniteSets, TLC

VARIABLES mode, pc, argv, args, classID, query, parameters, results,
          connOpen, events, stdout, stderr, exitStatus

vars == <<mode, pc, argv, args, classID, query, parameters, results,
          connOpen, events, stdout, stderr, exitStatus>>

(***************************************************************************)
(* Bounds of the model.                                                    *)
(***************************************************************************)
MaxFilterLen == 2   \* total number of characters typed over the four filters
MaxIdLen == 2       \* length of the class identifier given to get_details
MaxCross == 2       \* cross-listings of one course
MaxProfs == 2       \* professors of one course

(***************************************************************************)
(* Characters the code names.                                              *)
(***************************************************************************)
Percent == 37       \* '%'
Underscore == 95    \* '_'
Escape == 64        \* '@'
Newline == 10       \* '\n'
Space == 32         \* ' '
num_columns == 13

\* Python's None, as a value no text is equal to.
None == << 0 - 1 >>

\* sys.argv[0]
Argv0 == "reg.py"

(***************************************************************************)
(* Text helpers.                                                           *)
(***************************************************************************)
\* str.lower() on one character (ASCII letters).
LowerChar(c) == IF c >= 65 /\ c <= 90 THEN c + 32 ELSE c

\* str.lower()
Lower(s) == [i \in 1..Len(s) |-> LowerChar(s[i])]

\* str.replace(old, new) for a one-character old.
RECURSIVE Replace(_, _, _)
Replace(s, old, new) ==
    IF s = << >> THEN << >>
    ELSE (IF Head(s) = old THEN new ELSE << Head(s) >>) \o Replace(Tail(s), old, new)

\* Python truthiness of an optional string: neither None nor "".
Truthy(value) == value # None /\ value # << >>

\* `x in y` for two strings.
IsSubstring(x, y) ==
    \E i \in 0..(Len(y) - Len(x)) : SubSeq(y, i + 1, i + Len(x)) = x

\* Code-point order on strings: Python's str comparison, SQLite's BINARY collation.
RECURSIVE LexLess(_, _)
LexLess(x, y) ==
    IF y = << >> THEN FALSE
    ELSE IF x = << >> THEN TRUE
    ELSE IF Head(x) # Head(y) THEN Head(x) < Head(y)
    ELSE LexLess(Tail(x), Tail(y))

(***************************************************************************)
(* RegDB.replace_wildcards and RegDB.format_args.                          *)
(***************************************************************************)
replace_wildcards(string) ==
    Replace(Replace(string, Percent, << Escape, Percent >>),
            Underscore, << Escape, Underscore >>)

\* The body of format_args' loop for one truthy value.
FormatValue(value) ==
    << Percent >> \o Replace(Lower(replace_wildcards(value)), Newline, << >>)
                  \o << Percent >>

format_args(a) ==
    [key \in DOMAIN a |-> IF Truthy(a[key]) THEN FormatValue(a[key]) ELSE a[key]]

(***************************************************************************)
(* RegDB.get_search_query: the statement as a sequence of fragments.       *)
(***************************************************************************)
SelectClasses == "SELECT classid, dept, coursenum, area, title FROM classes INNER JOIN courses INNER JOIN crosslistings "
OrderByClause == " ORDER BY dept, coursenum, classid"
AndSep == " AND "
WhereKw == "WHERE "
DeptLike == "dept LIKE ? escape '@'"
NumLike == "coursenum LIKE ? escape '@'"
AreaLike == "area LIKE ? escape '@'"
TitleLike == "title LIKE ? escape '@'"

\* DropLastAnd without the slice: the trailing separator stays.
KeepLastAnd(where) == where

\* where[:-5]: the last five characters are the separator " AND ".
DropLastAnd(where) == SubSeq(where, 1, Len(where) - 1)

get_search_query(a) ==
    LET w1 == << WhereKw >> \o (IF Truthy(a.d) THEN << DeptLike, AndSep >> ELSE << >>)
        w2 == w1 \o (IF Truthy(a.n) THEN << NumLike, AndSep >> ELSE << >>)
        w3 == w2 \o (IF Truthy(a.a) THEN << AreaLike, AndSep >> ELSE << >>)
        w4 == w3 \o (IF Truthy(a.t) THEN << TitleLike, AndSep >> ELSE << >>)
        where == IF w4 # << WhereKw >> THEN DropLastAnd(w4) ELSE << >>
    IN  << SelectClasses >> \o where \o << OrderByClause >>

\* The parameter list search builds (lines 68-76).
search_parameters(a) ==
    (IF Truthy(a.d) THEN << a.d >> ELSE << >>)
    \o (IF Truthy(a.n) THEN << a.n >> ELSE << >>)
    \o (IF Truthy(a.a) THEN << a.a >> ELSE << >>)
    \o (IF Truthy(a.t) THEN << a.t >> ELSE << >>)

(***************************************************************************)
(* The data store, as the list statement sees it: the join of classes,     *)
(* courses and crosslistings, one row <<classid, dept, coursenum, area,    *)
(* title>> per class and cross-listing, in ORDER BY dept, coursenum,       *)
(* classid order.                                                          *)
(***************************************************************************)
Classes ==
    << << 1, << 65, 67 >>, << 51 >>,     << >>,    << 65, 64, 98 >> >>,  \* AC 3  ""  "A@b"
       << 2, << 67 >>,     << 51, 51 >>, << 97 >>, << 53, 37 >> >>,      \* C  33 "a" "5%"
       << 3, << 67 >>,     << 51, 51 >>, << 65 >>, << 97, 95, 98 >> >>,  \* C  33 "A" "a_b"
       << 4, << 69 >>,     << 49 >>,     << 97 >>, << 97, 98 >> >> >>    \* E  1  "a" "ab"

LikeFragments == { DeptLike, NumLike, AreaLike, TitleLike }

\* The column of a row that a LIKE fragment names.
ColumnOf(fragment) ==
    CASE fragment = DeptLike -> 2
      [] fragment = NumLike -> 3
      [] fragment = AreaLike -> 4
      [] fragment = TitleLike -> 5

\* X LIKE P escape '@' as SQLite evaluates it: '%' matches any run of characters,
\* '_' any one character, '@' makes the next pattern character literal (whatever
\* it is), letters compare without regard to ASCII case; a pattern ending in a
\* lone '@' matches nothing.
RECURSIVE Like(_, _)
Like(pattern, x) ==
    IF pattern = << >> THEN x = << >>
    ELSE LET c == Head(pattern) IN
         IF c = Percent
         THEN Like(Tail(pattern), x) \/ (x # << >> /\ Like(pattern, Tail(x)))
         ELSE IF c = Escape
         THEN /\ Len(pattern) >= 2
              /\ x # << >>
              /\ LowerChar(pattern[2]) = LowerChar(Head(x))
              /\ Like(Tail(Tail(pattern)), Tail(x))
         ELSE IF c = Underscore
         THEN x # << >> /\ Like(Tail(pattern), Tail(x))
         ELSE /\ x # << >>
              /\ LowerChar(c) = LowerChar(Head(x))
              /\ Like(Tail(pattern), Tail(x))

IsLikeFragment(fragment) == fragment \in LikeFragments

\* The LIKE predicates of a statement, left to right.
Predicates(q) == SelectSeq(q, IsLikeFragment)

\* The statement parses and has as many '?' as there are bound parameters;
\* otherwise cur.execute raises.
StatementAccepted(q, p) ==
    LET w == SubSeq(q, 2, Len(q) - 1) IN
    /\ Len(q) >= 2
    /\ q[1] = SelectClasses
    /\ q[Len(q)] = OrderByClause
    /\ \/ w = << >>
       \/ /\ Len(w) >= 2
          /\ Len(w) % 2 = 0
          /\ w[1] = WhereKw
          /\ \A i \in 2..Len(w) :
                IF i % 2 = 0 THEN w[i] \in LikeFragments ELSE w[i] = AndSep
    /\ Len(Predicates(q)) = Len(p)

\* cur.execute(query, parameters).fetchall() on an accepted statement.
RowSelected(q, p, row) ==
    \A i \in 1..Len(Predicates(q)) : Like(p[i], row[ColumnOf(Predicates(q)[i])])

RECURSIVE FilterRows(_, _, _)
FilterRows(rows, q, p) ==
    IF rows = << >> THEN << >>
    ELSE (IF RowSelected(q, p, Head(rows)) THEN << Head(rows) >> ELSE << >>)
         \o FilterRows(Tail(rows), q, p)

ExecuteSearch(q, p) == FilterRows(Classes, q, p)

(***************************************************************************)
(* RegDB.display_table: one item per print call.  An item is               *)
(* <<fixed text, interpolated value>>; the alignment and wrapping of a row *)
(* line are not part of the model.                                         *)
(***************************************************************************)
Header == << "ClsId Dept CrsNum Area Title", << >> >>
Underline == << "----- ---- ------ ---- -----", << >> >>

\* display_table with a message line for an empty result.
display_table_message(rs) ==
    << Header, Underline >>
    \o (IF rs = << >> THEN << << "no results", << >> >> >>
                      ELSE [i \in 1..Len(rs) |-> << "row", rs[i] >>])

display_table(rs) == << Header, Underline >> \o [i \in 1..Len(rs) |-> << "row", rs[i] >>]

(***************************************************************************)
(* Inputs of the list program: the four filters, each absent (None) or a   *)
(* text over FilterAlphabet, MaxFilterLen characters in all.               *)
(***************************************************************************)
FilterAlphabet == { 65, Percent, Underscore, Escape, Newline }

ValuesOfLen(l) == IF l = 0 THEN { None, << >> } ELSE [1..l -> FilterAlphabet]

FilterLengths ==
    { L \in [1..4 -> 0..MaxFilterLen] : L[1] + L[2] + L[3] + L[4] <= MaxFilterLen }

ArgSets ==
    UNION { [d : ValuesOfLen(L[1]), n : ValuesOfLen(L[2]),
             a : ValuesOfLen(L[3]), t : ValuesOfLen(L[4])] : L \in FilterLengths }

NoArgs == [d |-> None, n |-> None, a |-> None, t |-> None]

(***************************************************************************)
(* reg.py main: parse_args, RegDB(), search, close, return.                *)
(***************************************************************************)
Exit(status) == pc' = "exited" /\ exitStatus' = status

\* parser.parse_args() returns the namespace.
ParseArgs ==
    /\ mode = "list" /\ pc = "start"
    /\ \E a \in ArgSets : argv' = a /\ args' = a
    /\ pc' = "parsed"
    /\ UNCHANGED <<mode, classID, query, parameters, results, connOpen, events,
                   stdout, stderr, exitStatus>>

\* parser.parse_args() on -h: prints the help text and exits with status 0.
ParseArgsHelp ==
    /\ mode = "list" /\ pc = "start"
    /\ stdout' = Append(stdout, << "usage", << >> >>)
    /\ Exit(0)
    /\ UNCHANGED <<mode, argv, args, classID, query, parameters, results, connOpen,
                   events, stderr>>

\* parser.parse_args() on an argument it does not accept: usage error, status 2.
ParseArgsError ==
    /\ mode = "list" /\ pc = "start"
    /\ stderr' = Append(stderr, << Argv0, ": error: ", "unrecognized arguments" >>)
    /\ Exit(2)
    /\ UNCHANGED <<mode, argv, args, classID, query, parameters, results, connOpen,
                   events, stdout>>

\* RegDB.__init__, sqlite3.connect succeeds.
Connect ==
    /\ mode = "list" /\ pc = "parsed"
    /\ connOpen' = TRUE
    /\ events' = Append(events, "open")
    /\ pc' = "connected"
    /\ UNCHANGED <<mode, argv, args, classID, query, parameters, results, stdout,
                   stderr, exitStatus>>

\* RegDB.__init__, sqlite3.connect raises.
ConnectFails ==
    /\ mode = "list" /\ pc = "parsed"
    /\ stderr' = Append(stderr, << Argv0, ": ", "unable to open database file" >>)
    /\ Exit(1)
    /\ UNCHANGED <<mode, argv, args, classID, query, parameters, results, connOpen,
                   events, stdout>>

\* RegDB.search, the statement executes: format_args, get_search_query, the
\* parameter list, execute, display_table.
Search ==
    /\ mode = "list" /\ pc = "connected"
    /\ LET a == format_args(args)
           q == get_search_query(a)
           p == search_parameters(a)
       IN  /\ StatementAccepted(q, p)
           /\ args' = a /\ query' = q /\ parameters' = p
           /\ results' = ExecuteSearch(q, p)
           /\ stdout' = stdout \o display_table(ExecuteSearch(q, p))
    /\ events' = events \o << "query", "render" >>
    /\ pc' = "rendered"
    /\ UNCHANGED <<mode, argv, classID, connOpen, stderr, exitStatus>>

\* RegDB.search, cur.execute raises (the statement is rejected, or the store
\* fails): the except branch.
SearchFails ==
    /\ mode = "list" /\ pc = "connected"
    /\ LET a == format_args(args)
       IN  /\ args' = a
           /\ query' = get_search_query(a)
           /\ parameters' = search_parameters(a)
    /\ events' = Append(events, "query")
    /\ stderr' = Append(stderr, << Argv0, ": ", "database error" >>)
    /\ Exit(1)
    /\ UNCHANGED <<mode, argv, classID, results, connOpen, stdout>>

\* Close that leaves the connection open.
CloseSkipped ==
    /\ mode = "list" /\ pc = "rendered"
    /\ pc' = "closed"
    /\ UNCHANGED <<mode, argv, args, classID, query, parameters, results, connOpen,
                   events, stdout, stderr, exitStatus>>

\* RegDB.close
Close ==
    /\ mode = "list" /\ pc = "rendered"
    /\ connOpen' = FALSE
    /\ events' = Append(events, "close")
    /\ pc' = "closed"
    /\ UNCHANGED <<mode, argv, args, classID, query, parameters, results, stdout,
                   stderr, exitStatus>>

\* main returns: the interpreter exits with status 0.
MainReturns ==
    /\ mode = "list" /\ pc = "closed"
    /\ Exit(0)
    /\ UNCHANGED <<mode, argv, args, classID, query, parameters, results, connOpen,
                   events, stdout, stderr>>

(***************************************************************************)
(* RegDB.get_details.  The run starts with the RegDB object constructed    *)
(* (get_details reads self.cur) and ends when get_details returns, exits   *)
(* or raises.                                                              *)
(***************************************************************************)
\* isdigit without the "at least one character" part.
isdigit_vacuous(s) == \A i \in 1..Len(s) : s[i] >= 48 /\ s[i] <= 57

\* str.isdigit(): at least one character, all of them digits.
isdigit(s) == s # << >> /\ \A i \in 1..Len(s) : s[i] >= 48 /\ s[i] <= 57

IdAlphabet == { 49, 57, 97 }    \* '1', '9', 'a'

ClassIds == UNION { [1..l -> IdAlphabet] : l \in 0..MaxIdLen }

(***************************************************************************)
(* The data store, as the detail statement sees it (get_details_query): a  *)
(* class has one course, the course has one or more cross-listings and     *)
(* zero or more professors; the statement returns one 13-column row per    *)
(* cross-listing and professor (profname NULL when the LEFT JOIN finds no  *)
(* professor), ORDER BY dept, coursenum; the order of the professors is    *)
(* the store's.                                                            *)
(***************************************************************************)
Depts == { << 65 >>, << 67 >>, << 65, 67 >> }        \* "A", "C", "AC"
Nums == { << 51 >>, << 51, 51 >> }                   \* "3", "33"
ProfNames == { << 65 >>, << 66 >>, << 97 >> }        \* "A", "B", "a"
PrereqTexts == { << >>, << 80 >> }                   \* "", "P"

Pairs == Depts \X Nums

CrossListings == { S \in SUBSET Pairs : Cardinality(S) >= 1 /\ Cardinality(S) <= MaxCross }

\* The professors of a course in the order the store returns them; <<None>>
\* when the course has no professor.
ProfOrders ==
    { << None >> } \cup
    UNION { { f \in [1..l -> ProfNames] : \A i, j \in 1..l : i # j => f[i] # f[j] }
            : l \in 1..MaxProfs }

\* ORDER BY dept, coursenum
PairLess(x, y) == LexLess(x[1], y[1]) \/ (x[1] = y[1] /\ LexLess(x[2], y[2]))

RECURSIVE SortPairs(_)
SortPairs(S) ==
    IF S = { } THEN << >>
    ELSE LET m == CHOOSE x \in S : \A y \in S \ { x } : PairLess(x, y)
         IN  << m >> \o SortPairs(S \ { m })

\* courseid, days, starttime, endtime, bldg, roomnum, dept, coursenum, area,
\* title, descrip, prereqs, profname
DetailRow(pair, prereqs, prof) ==
    << << 55 >>, << 77 >>, << 57 >>, << 49, 48 >>, << 66 >>, << 49 >>, pair[1], pair[2],
       << 81 >>, << 84 >>, << 68 >>, prereqs, prof >>

RECURSIVE JoinRows(_, _, _)
JoinRows(pairs, prereqs, profs) ==
    IF pairs = << >> THEN << >>
    ELSE [i \in 1..Len(profs) |-> DetailRow(Head(pairs), prereqs, profs[i])]
         \o JoinRows(Tail(pairs), prereqs, profs)

\* What cur.execute(query, [class_id]).fetchall() can return: no row when no
\* class has the identifier, the rows of the class otherwise.
DetailResults ==
    { << >> } \cup
    { JoinRows(SortPairs(cross), prereqs, profs) :
        cross \in CrossListings, prereqs \in PrereqTexts, profs \in ProfOrders }

(***************************************************************************)
(* RegDB.display_details                                                   *)
(***************************************************************************)
DeptLabel == << 68, 101, 112, 116, 32, 97, 110, 100, 32, 78, 117, 109, 98, 101, 114, 58, 32 >>   \* "Dept and Number: "
ProfLabel == << 80, 114, 111, 102, 101, 115, 115, 111, 114, 58, 32 >>    \* "Professor: "
NoneText == << 78, 111, 110, 101 >>                                      \* "None"

\* How an f-string renders a value.
Str(v) == IF v = None THEN NoneText ELSE v

\* `new_dept_num not in dept_num`
NotSeen(new_dept_num, dept_num) == ~ IsSubstring(new_dept_num, dept_num)

\* The loop of lines 205-209, the dept_num part.
RECURSIVE DeptNumLoop(_, _)
DeptNumLoop(rows, dept_num) ==
    IF rows = << >> THEN dept_num
    ELSE LET curr == Head(rows)
             new_dept_num == Str(curr[7]) \o << Space >> \o Str(curr[8])
         IN  DeptNumLoop(Tail(rows),
                         IF NotSeen(new_dept_num, dept_num)
                         THEN dept_num \o DeptLabel \o new_dept_num \o << Newline >>
                         ELSE dept_num)

\* None sorts with itself only; names sort in code-point order.
RECURSIVE SortNames(_)
SortNames(S) ==
    IF S = { } THEN << >>
    ELSE LET m == CHOOSE x \in S : \A y \in S \ { x } : LexLess(x, y)
         IN  << m >> \o SortNames(S \ { m })

\* SortedProfs without the sort: the distinct names in the order of the rows.
RECURSIVE FirstSeenProfs(_, _)
FirstSeenProfs(rows, seen) ==
    IF rows = << >> THEN << >>
    ELSE IF Head(rows)[13] \in seen THEN FirstSeenProfs(Tail(rows), seen)
    ELSE << Head(rows)[13] >> \o FirstSeenProfs(Tail(rows), seen \cup { Head(rows)[13] })

UnsortedProfs(rows) == FirstSeenProfs(rows, { })

\* profs = list(set(profs)); profs.sort()
SortedProfs(rows) == SortNames({ rows[i][13] : i \in 1..Len(rows) })

\* The loop of lines 213-215.
RECURSIVE ProfStr(_)
ProfStr(profs) ==
    IF profs = << >> THEN << >>
    ELSE ProfLabel \o Str(Head(profs)) \o << Newline >> \o ProfStr(Tail(profs))

\* prof_str[:-1]
DropLastChar(text) == SubSeq(text, 1, Len(text) - 1)

\* What display_details writes and whether it exits: one stdout item per print
\* call, <<fixed text, interpolated value>>; textwrap.fill is not modelled.
display_details(rs) ==
    LET res == rs[1]
        profs == SortedProfs(rs)
    IN  IF Len(res) # num_columns
        THEN [stdout |-> << >>,
              stderr |-> << << "Error: Invalid number items in details display" >> >>,
              exits |-> TRUE]
        ELSE [stdout |->
                << << "Course Id: ", res[1] >>,
                   << "Days: ", res[2] >>,
                   << "Start time: ", res[3] >>,
                   << "End time: ", res[4] >>,
                   << "Building: ", res[5] >>,
                   << "Room: ", res[6] >>,
                   << "", DeptNumLoop(rs, << >>) >>,
                   << "Area: ", res[9] >>,
                   << "Title: ", res[10] >>,
                   << "Description: ", res[11] >>,
                   IF Len(res[12]) > 0 THEN << "Prerequisites: ", res[12] >>
                                       ELSE << "Prerequisites:", << >> >> >>
                \o (IF profs[1] # None
                    THEN << << "", DropLastChar(ProfStr(profs)) >> >>
                    ELSE << >>),
              stderr |-> << >>,
              exits |-> FALSE]

\* RegDB.get_details_query: the statement as a sequence of fragments.
get_details_query ==
    << "SELECT classes.courseid, days, starttime, endtime, bldg, roomnum, dept, coursenum, area, title, descrip, prereqs, profname FROM classes INNER JOIN courses INNER JOIN crosslistings LEFT JOIN coursesprofs LEFT JOIN profs ",
       "WHERE classid = ?",
       " ORDER BY dept, coursenum" >>

\* get_details, the identifier fails the digit check (lines 95-99).
GetDetailsNotDigit ==
    /\ mode = "detail" /\ pc = "constructed"
    /\ \E id \in ClassIds :
          /\ ~ isdigit(id)
          /\ classID' = id
    /\ stderr' = Append(stderr, << "Error: Class ID must be a number" >>)
    /\ Exit(1)
    /\ UNCHANGED <<mode, argv, args, query, parameters, results, connOpen, events,
                   stdout>>

\* get_details, cur.execute raises (line 104): nothing catches the exception,
\* it leaves get_details.
GetDetailsRaises ==
    /\ mode = "detail" /\ pc = "constructed"
    /\ \E id \in ClassIds :
          /\ isdigit(id)
          /\ classID' = id
          /\ parameters' = << id >>
    /\ query' = get_details_query
    /\ events' = Append(events, "query")
    /\ pc' = "raised"
    /\ UNCHANGED <<mode, argv, args, results, connOpen, stdout, stderr, exitStatus>>

\* get_details, the statement executes (lines 95-110).
GetDetails ==
    /\ mode = "detail" /\ pc = "constructed"
    /\ \E id \in ClassIds, rows \in DetailResults :
          /\ isdigit(id)
          /\ classID' = id
          /\ parameters' = << id >>
          /\ results' = rows
          /\ IF Len(rows) = 0
             THEN /\ stderr' = Append(stderr, << "no class with classid ", id, " exists" >>)
                  /\ events' = Append(events, "query")
                  /\ Exit(1)
                  /\ UNCHANGED stdout
             ELSE LET out == display_details(rows)
                  IN  /\ stdout' = stdout \o out.stdout
                      /\ stderr' = stderr \o out.stderr
                      /\ events' = events \o << "query", "display_details" >>
                      /\ IF out.exits THEN Exit(1)
                                      ELSE pc' = "returned" /\ UNCHANGED exitStatus
    /\ query' = get_details_query
    /\ UNCHANGED <<mode, argv, args, connOpen>>

Init ==
    /\ mode \in { "list", "detail" }
    /\ pc = (IF mode = "list" THEN "start" ELSE "constructed")
    /\ argv = NoArgs /\ args = NoArgs
    /\ classID = << >>
    /\ query = << >> /\ parameters = << >> /\ results = << >>
    /\ connOpen = (mode = "detail")
    /\ events = (IF mode = "list" THEN << >> ELSE << "open" >>)
    /\ stdout = << >> /\ stderr = << >>
    /\ exitStatus = 0

Next ==
    \/ ParseArgs \/ ParseArgsHelp \/ ParseArgsError
    \/ Connect \/ ConnectFails
    \/ Search \/ SearchFails
    \/ Close \/ MainReturns
    \/ GetDetailsNotDigit \/ GetDetailsRaises \/ GetDetails

Spec == Init /\ [][Next]_vars

(***************************************************************************)
(* Properties.                                                             *)
(***************************************************************************)
Happened(e) == \E i \in 1..Len(events) : events[i] = e

\* text occurs in field, letters compared without regard to case.
ContainsCI(field, text) == IsSubstring(Lower(text), Lower(field))

\* The text of a filter as the user means it: format_args drops line breaks
\* by design, so they are no part of the text looked for.
TypedText(key) == Replace(argv[key], Newline, << >>)

FilterKeys == << "d", "n", "a", "t" >>

\* dept, coursenum, area, title of a list row.
FieldOf(row, key) ==
    CASE key = "d" -> row[2] [] key = "n" -> row[3] [] key = "a" -> row[4] [] key = "t" -> row[5]

FragmentOf(key) ==
    CASE key = "d" -> DeptLike [] key = "n" -> NumLike [] key = "a" -> AreaLike
      [] key = "t" -> TitleLike

InResults(row) == \E j \in 1..Len(results) : results[j] = row

\* C1: search returns a row if and only if, for every filter the user supplied,
\* the row's field contains the user's text as a case-insensitive substring.
C1_SearchReturnsMatchingRows ==
    (mode = "list" /\ Happened("render")) =>
        \A i \in 1..Len(Classes) :
            InResults(Classes[i]) <=>
                \A k \in 1..4 :
                    argv[FilterKeys[k]] # None =>
                        ContainsCI(FieldOf(Classes[i], FilterKeys[k]), TypedText(FilterKeys[k]))

HasWildcard(text) == \E i \in 1..Len(text) : text[i] \in { Percent, Underscore }

\* C2: for a filter text holding '%' or '_', the pattern format_args makes
\* matches exactly the fields that contain the typed text (case-insensitively).
C2_WildcardsStayLiteral ==
    (mode = "list" /\ Happened("query")) =>
        \A k \in 1..4 :
            (argv[FilterKeys[k]] # None /\ HasWildcard(argv[FilterKeys[k]])) =>
                \A i \in 1..Len(Classes) :
                    Like(args[FilterKeys[k]], FieldOf(Classes[i], FilterKeys[k]))
                        <=> ContainsCI(FieldOf(Classes[i], FilterKeys[k]),
                                       TypedText(FilterKeys[k]))

\* C3: a store error during the detail query never leaves get_details as an
\* unhandled exception: the run ends through the handled path, with a message
\* on stderr and a non-zero exit status.
C3_DetailQueryErrorHandled ==
    mode = "detail" => pc # "raised"

AllDigitChars(id) == Len(id) >= 1 /\ \A i \in 1..Len(id) : id[i] \in 48..57

\* C4: a class identifier that is not all digits (the empty one included) makes
\* get_details write an error and exit non-zero; no query is built or executed
\* and nothing is printed.
C4_NonDigitIdRejectedBeforeQuery ==
    (mode = "detail" /\ pc # "constructed" /\ ~ AllDigitChars(classID)) =>
        /\ pc = "exited" /\ exitStatus # 0
        /\ Len(stderr) = 1
        /\ ~ Happened("query") /\ query = << >> /\ parameters = << >>
        /\ stdout = << >>

C4_Witness ==
    /\ mode = "detail" /\ pc = "exited"
    /\ Len(classID) = 2 /\ classID[1] \in 48..57 /\ classID[2] \notin 48..57
    /\ stderr = << << "Error: Class ID must be a number" >> >>

\* C5: zero rows are an error exactly in detail mode: the list run prints the
\* header and the underline only and ends with status 0; the detail run writes
\* "no class with classid <id> exists" to stderr, exits non-zero and never
\* calls display_details.
C5_ZeroRows ==
    /\ (mode = "list" /\ Happened("render") /\ results = << >>) =>
          /\ stdout = << Header, Underline >>
          /\ stderr = << >>
          /\ pc \in { "rendered", "closed", "exited" }
          /\ pc = "exited" => exitStatus = 0
    /\ (mode = "detail" /\ Happened("query") /\ pc # "raised" /\ results = << >>) =>
          /\ pc = "exited" /\ exitStatus # 0
          /\ stderr = << << "no class with classid ", classID, " exists" >> >>
          /\ ~ Happened("display_details")
          /\ stdout = << >>

C5_Witness ==
    /\ mode = "detail" /\ pc = "exited" /\ Happened("query") /\ results = << >>
    /\ classID = << 57, 57 >>

C5_ListWitness ==
    /\ mode = "list" /\ pc = "exited" /\ exitStatus = 0 /\ Happened("render")
    /\ results = << >>

\* The distinct (dept, coursenum) pairs of the rows, in first-seen order.
RECURSIVE FirstSeenPairs(_, _)
FirstSeenPairs(rows, seen) ==
    IF rows = << >> THEN << >>
    ELSE LET pair == << Head(rows)[7], Head(rows)[8] >>
         IN  IF pair \in seen THEN FirstSeenPairs(Tail(rows), seen)
             ELSE << pair >> \o FirstSeenPairs(Tail(rows), seen \cup { pair })

\* The lines of a text that ends each line with a newline.
RECURSIVE LinesOf(_, _)
LinesOf(text, line) ==
    IF text = << >> THEN (IF line = << >> THEN << >> ELSE << line >>)
    ELSE IF Head(text) = Newline THEN << line >> \o LinesOf(Tail(text), << >>)
    ELSE LinesOf(Tail(text), Append(line, Head(text)))

\* C6: display_details emits one "Dept and Number:" line per distinct
\* (dept, coursenum) pair of the rows, each once, in first-seen order.
C6_OneLinePerDistinctPair ==
    (mode = "detail" /\ pc = "returned") =>
        LET pairs == FirstSeenPairs(results, { })
        IN  LinesOf(stdout[7][2], << >>) =
                [i \in 1..Len(pairs) |-> DeptLabel \o pairs[i][1] \o << Space >> \o pairs[i][2]]

ProfessorsOf(rows) == { rows[i][13] : i \in 1..Len(rows) } \ { None }

\* The names of a set in increasing code-point order.
Ascending(S) ==
    CHOOSE f \in [1..Cardinality(S) -> S] :
        \A i, j \in 1..Cardinality(S) : i < j => LexLess(f[i], f[j])

C7_NoProfessorWitness ==
    /\ mode = "detail" /\ pc = "returned"
    /\ ProfessorsOf(results) = { }

EventOrder == << "open", "query", "render", "close" >>

IsPrefix(x, y) == Len(x) <= Len(y) /\ SubSeq(y, 1, Len(x)) = x

\* C8 as stated: the events of main are a prefix of open, query, render, close,
\* and every run that ends with status 0 has done all four.
C8_EveryZeroExitClosed ==
    mode = "list" =>
        /\ IsPrefix(events, EventOrder)
        /\ (pc = "exited" /\ exitStatus = 0) => events = EventOrder

\* C8, amended: the events of main are a prefix of open, query, render, close
\* (so no query without a successful open, at most one query); a failed open
\* exits non-zero with no event at all; a run that ends with status 0 has done
\* all four and left the connection closed, unless it is the help request,
\* which ends in parse_args before anything is opened.
C8_OpenQueryRenderClose ==
    mode = "list" =>
        /\ IsPrefix(events, EventOrder)
        /\ connOpen <=> (Happened("open") /\ ~ Happened("close"))
        /\ (pc = "exited" /\ ~ Happened("open")) =>
              (exitStatus # 0 \/ stdout = << << "usage", << >> >> >>)
        /\ (pc = "exited" /\ exitStatus = 0) =>
              \/ events = EventOrder /\ ~ connOpen
              \/ events = << >> /\ stdout = << << "usage", << >> >> >> /\ argv = NoArgs

C8_Witness ==
    /\ mode = "list" /\ pc = "exited" /\ exitStatus = 0
    /\ events = EventOrder /\ ~ connOpen
    /\ Len(results) >= 1

\* C9: every error message is written to stderr with a prefix that names the
\* invoking program, and its run exits non-zero.
C9_ErrorsNameTheProgram ==
    /\ \A i \in 1..Len(stderr) : stderr[i][1] = Argv0
    /\ (stderr # << >> /\ pc = "exited") => exitStatus # 0

IsNonEmptyFilter(key) == argv[key] # None /\ argv[key] # << >>

NonEmptyFilters == SelectSeq(FilterKeys, IsNonEmptyFilter)

RECURSIVE JoinAnd(_)
JoinAnd(keys) ==
    IF Len(keys) = 1 THEN << FragmentOf(keys[1]) >>
    ELSE << FragmentOf(keys[1]), AndSep >> \o JoinAnd(Tail(keys))

====
